---- MODULE Spec2Model ----
(***************************************************************************)
(* Model of js/blog-renderer.js: the frontmatter parser, the list view     *)
(* (loadBlogList) and the post view (loadBlogPost) with its renderers.     *)
(*                                                                         *)
(* Text is modelled character by character: a JavaScript string is a       *)
(* sequence of one-character strings.  A JavaScript value is a record      *)
(* [type, val] with type "string", "array" (of strings) or "undefined".    *)
(***************************************************************************)
EXTENDS Integers, Sequences, FiniteSets, TLC

VARIABLES
    \* ---- parseFrontmatter applied to a text
    parsePc,        \* "start" | "done"
    markdown,       \* the text handed to parseFrontmatter
    result,         \* what parseFrontmatter returned
    \* ---- loadBlogList (list view)
    listPc,         \* "fetching" | "done"
    listResp,       \* what fetch + response.json() produced
    blogList,       \* innerHTML of #blog-list
    escaped,        \* an exception left loadBlogList
    \* ---- loadBlogPost (post view)
    pc,             \* "reading-slug" | "loading-catalog" | "loading-document" | "done" | "error"
    slug,           \* URLSearchParams.get('slug')
    catalog,        \* outcome of the catalog fetch + json()
    doc,            \* outcome of the document fetch + text()
    blocks,         \* fenced code blocks marked hands to the highlight callback
    postMeta,       \* the catalog entry posts.find returned
    trace,          \* steps of the run, in order
    dom,            \* the regions of blog-post.html the code writes
    dom0            \* dom before the run

parseVars == <<parsePc, markdown, result>>
listVars == <<listPc, listResp, blogList, escaped>>
postVars == <<pc, slug, catalog, doc, blocks, postMeta, trace, dom, dom0>>
vars == <<parsePc, markdown, result, listPc, listResp, blogList, escaped,
          pc, slug, catalog, doc, blocks, postMeta, trace, dom, dom0>>

\* ---------------------------------------------------------------- bounds
MaxLines == 4       \* lines of a text handed to parseFrontmatter
MaxPosts == 3       \* entries of a catalog in the list view
MaxBlocks == 2      \* fenced code blocks in a post body

\* ------------------------------------------------------- JavaScript values
Str(s) == [type |-> "string", val |-> s]
Arr(a) == [type |-> "array", val |-> a]
Undefined == [type |-> "undefined", val |-> <<>>]

NL == "\n"
Quotes == {"\"", "'"}

\* \s of a regular expression and the characters String.prototype.trim removes
IsWS(c) == c \in {" ", NL, "\t", "\r"}

Max(S) == CHOOSE x \in S : \A y \in S : y <= x
Min(S) == CHOOSE x \in S : \A y \in S : x <= y

\* s.substring(i, j) with 0-based i (inclusive) and j (exclusive)
Sub(s, i, j) == SubSeq(s, i + 1, j)

RECURSIVE TrimLeft(_)
TrimLeft(s) == IF s # <<>> /\ IsWS(Head(s)) THEN TrimLeft(Tail(s)) ELSE s

RECURSIVE TrimRight(_)
TrimRight(s) ==
    IF s # <<>> /\ IsWS(s[Len(s)]) THEN TrimRight(SubSeq(s, 1, Len(s) - 1)) ELSE s

\* String.prototype.trim
Trim(s) == TrimRight(TrimLeft(s))

\* s.indexOf(c), 0-based, -1 when absent
IndexOf(s, c) ==
    IF \E i \in 1..Len(s) : s[i] = c
    THEN Min({i \in 1..Len(s) : s[i] = c}) - 1
    ELSE -1

\* s.split(c): the pieces between the occurrences of the character c
RECURSIVE Split(_, _)
Split(s, c) ==
    LET i == IndexOf(s, c)
    IN  IF i < 0 THEN <<s>>
        ELSE <<Sub(s, 0, i)>> \o Split(Sub(s, i + 1, Len(s)), c)

\* a.join(c)
RECURSIVE Join(_, _)
Join(a, c) ==
    IF a = <<>> THEN <<>>
    ELSE IF Len(a) = 1 THEN a[1]
    ELSE a[1] \o <<c>> \o Join(Tail(a), c)

\* value.replace(/^["']|["']$/g, ''): drops one leading and one trailing quote
StripQuotes(v) ==
    LET a == IF v # <<>> /\ Head(v) \in Quotes THEN Tail(v) ELSE v
    IN  IF a # <<>> /\ a[Len(a)] \in Quotes THEN SubSeq(a, 1, Len(a) - 1) ELSE a

\* ---------------------------------------------------------- parseFrontmatter
\* "---" at 1-based position i
HasDashes(s, i) ==
    i + 2 <= Len(s) /\ s[i] = "-" /\ s[i + 1] = "-" /\ s[i + 2] = "-"

AllWS(s, i, j) == \A k \in i..j : IsWS(s[k])

\* positions of the "\n" that can end  ^---\s*\n
OpenEnds(s) ==
    IF HasDashes(s, 1)
    THEN {p \in 4..Len(s) : s[p] = NL /\ AllWS(s, 4, p - 1)}
    ELSE {}

\* positions of the "\n" that can end  \n---\s*\n  when its first "\n" is at q
CloseEnds(s, q) ==
    IF q >= 1 /\ q <= Len(s) /\ s[q] = NL /\ HasDashes(s, q + 1)
    THEN {r \in (q + 4)..Len(s) : s[r] = NL /\ AllWS(s, q + 4, r - 1)}
    ELSE {}

\* positions where the closing  \n---\s*\n  can start after an opening ending at p
CloseStarts(s, p) == {q \in (p + 1)..Len(s) : CloseEnds(s, q) # {}}

\* markdown.match(frontmatterRegex): the first \s* is greedy, group 1 is lazy,
\* the second \s* is greedy, group 2 takes the rest
RegexMatch(s) ==
    LET P == {p \in OpenEnds(s) : CloseStarts(s, p) # {}}
    IN  IF P = {} THEN [matched |-> FALSE, g1 |-> <<>>, g2 |-> <<>>]
        ELSE LET p == Max(P)
                 q == Min(CloseStarts(s, p))
                 r == Max(CloseEnds(s, q))
             IN  [matched |-> TRUE,
                  g1 |-> SubSeq(s, p + 1, q - 1),
                  g2 |-> SubSeq(s, r + 1, Len(s))]

\* a key that cannot occur, for the empty object {}
EmptyObj == [k \in {} |-> Undefined]

\* one element of a bracketed value: v.trim().replace(/^["']|["']$/g, '')
RECURSIVE MapItems(_)
MapItems(a) ==
    IF a = <<>> THEN <<>> ELSE <<StripQuotes(Trim(Head(a)))>> \o MapItems(Tail(a))

\* the value of one "key: value" line
ParseValue(raw) ==
    LET v == StripQuotes(Trim(raw))
    IN  IF v # <<>> /\ Head(v) = "[" /\ v[Len(v)] = "]"
        THEN Arr(MapItems(Split(Sub(v, 1, Len(v) - 1), ",")))
        ELSE Str(v)

\* frontmatterText.split('\n').forEach(...): later lines overwrite earlier ones
RECURSIVE ParseLines(_, _)
ParseLines(lines, fm) ==
    IF lines = <<>> THEN fm
    ELSE LET line == Head(lines)
             colonIndex == IndexOf(line, ":")
         IN  IF colonIndex > 0
             THEN LET key == Trim(Sub(line, 0, colonIndex))
                      value == ParseValue(Sub(line, colonIndex + 1, Len(line)))
                  IN  ParseLines(Tail(lines), (key :> value) @@ fm)
             ELSE ParseLines(Tail(lines), fm)

\* a faulty variant: the body is trimmed before it is returned
parseFrontmatterTrimmed(text) ==
    LET m == RegexMatch(text)
    IN  IF ~m.matched THEN [frontmatter |-> EmptyObj, content |-> Trim(text)]
        ELSE [frontmatter |-> ParseLines(Split(m.g1, NL), EmptyObj),
              content |-> Trim(m.g2)]

parseFrontmatter(text) ==
    LET m == RegexMatch(text)
    IN  IF ~m.matched THEN [frontmatter |-> EmptyObj, content |-> text]
        ELSE [frontmatter |-> ParseLines(Split(m.g1, NL), EmptyObj),
              content |-> m.g2]

\* ------------------------------------------------- texts for the parser
\* the lines the texts are built from
LDelim == <<"-", "-", "-">>
LDelimSp == <<"-", "-", "-", " ">>
LBlank == <<>>
LKeyVal == <<"k", ":", " ", "v">>
LQuoted == <<"k", ":", " ", "'", "w", "'">>
LList == <<"t", ":", " ", "[", "a", ",", " ", "\"", "b", "\"", "]">>
LPlain == <<"b">>
LColonFirst == <<":", "x">>

LineSet == {LDelim, LDelimSp, LBlank, LKeyVal, LQuoted, LList, LPlain, LColonFirst}

RECURSIVE SeqsUpTo(_, _)
SeqsUpTo(S, n) ==
    IF n = 0 THEN {<<>>}
    ELSE LET R == SeqsUpTo(S, n - 1)
         IN  R \cup {Append(r, x) : r \in {r \in R : Len(r) = n - 1}, x \in S}

\* every text of at most MaxLines lines over LineSet ("" is the text of one blank line)
Texts == {Join(ls, NL) : ls \in SeqsUpTo(LineSet, MaxLines) \ {<<>>}}

NoResult == [frontmatter |-> EmptyObj, content |-> <<>>]

RunParseFrontmatter ==
    /\ parsePc = "start"
    /\ result' = parseFrontmatter(markdown)
    /\ parsePc' = "done"
    /\ UNCHANGED markdown

\* ------------------------------------------------------------ objects
\* obj.key: undefined when the object has no such key
Get(obj, key) == IF key \in DOMAIN obj THEN obj[key] ELSE Undefined

K_slug == <<"s", "l", "u", "g">>
K_title == <<"t", "i", "t", "l", "e">>
K_description == <<"d", "e", "s", "c", "r", "i", "p", "t", "i", "o", "n">>
K_date == <<"d", "a", "t", "e">>
K_readTime == <<"r", "e", "a", "d", "T", "i", "m", "e">>
K_tags == <<"t", "a", "g", "s">>
K_canonical == <<"c", "a", "n", "o", "n", "i", "c", "a", "l">>

Digits == <<"0", "1", "2", "3", "4", "5", "6", "7", "8", "9">>
DigitChar(i) == Digits[i + 1]
IsDigit(c) == \E i \in 1..10 : Digits[i] = c
DigitVal(c) == (CHOOSE i \in 1..10 : Digits[i] = c) - 1

\* `${v}`, textContent = v, setAttribute(name, v): the string a value turns into
JsString(v) ==
    IF v.type = "string" THEN v.val
    ELSE IF v.type = "array" THEN Join(v.val, ",")
    ELSE <<"u", "n", "d", "e", "f", "i", "n", "e", "d">>

\* ------------------------------------------------------------- dates
DaysInMonth(y, m) ==
    IF m = 2
    THEN (IF (y % 4 = 0 /\ y % 100 # 0) \/ y % 400 = 0 THEN 29 ELSE 28)
    ELSE IF m \in {4, 6, 9, 11} THEN 30 ELSE 31

\* days from 1970-01-01 to the civil date y-m-d
DaysFromCivil(y, m, d) ==
    LET yy == IF m <= 2 THEN y - 1 ELSE y
        era == yy \div 400
        yoe == yy - era * 400
        mp == IF m > 2 THEN m - 3 ELSE m + 9
        doy == (153 * mp + 2) \div 5 + d - 1
        doe == yoe * 365 + yoe \div 4 - yoe \div 100 + doy
    IN  era * 146097 + doe - 719468

NaN == [nan |-> TRUE, days |-> 0]

\* new Date(dateString) for the date-only form YYYY-MM-DD (midnight UTC); the
\* time value is kept in days, one day being 86400000 ms; other strings are
\* not dates
NewDate(v) ==
    LET s == JsString(v)
    IN  IF /\ Len(s) = 10
           /\ s[5] = "-" /\ s[8] = "-"
           /\ \A i \in {1, 2, 3, 4, 6, 7, 9, 10} : IsDigit(s[i])
        THEN LET y == DigitVal(s[1]) * 1000 + DigitVal(s[2]) * 100
                      + DigitVal(s[3]) * 10 + DigitVal(s[4])
                 m == DigitVal(s[6]) * 10 + DigitVal(s[7])
                 d == DigitVal(s[9]) * 10 + DigitVal(s[10])
             IN  IF m \in 1..12 /\ d >= 1 /\ d <= DaysInMonth(y, m)
                 THEN [nan |-> FALSE, days |-> DaysFromCivil(y, m, d)]
                 ELSE NaN
        ELSE NaN

\* formatDate: the en-US long form of the date, kept symbolic as "#" + the string
formatDate(v) == <<"#">> \o JsString(v)

\* ------------------------------------------------------- loadBlogList
\* a faulty comparator: oldest first
compareOldestFirst(a, b) ==
    LET ta == NewDate(Get(a, K_date))
        tb == NewDate(Get(b, K_date))
    IN  IF ta.nan \/ tb.nan THEN 0 ELSE ta.days - tb.days

\* (a, b) => new Date(b.date) - new Date(a.date); sort takes NaN as 0
compareNewestFirst(a, b) ==
    LET ta == NewDate(Get(a, K_date))
        tb == NewDate(Get(b, K_date))
    IN  IF ta.nan \/ tb.nan THEN 0 ELSE tb.days - ta.days

\* x put into the sorted sequence s after every element that does not sort after it
RECURSIVE InsertSorted(_, _)
InsertSorted(s, x) ==
    IF s = <<>> THEN <<x>>
    ELSE IF compareNewestFirst(s[Len(s)], x) <= 0 THEN Append(s, x)
    ELSE Append(InsertSorted(SubSeq(s, 1, Len(s) - 1), x), s[Len(s)])

\* Array.prototype.sort with the comparator above: a stable sort
RECURSIVE SortPosts(_)
SortPosts(posts) ==
    IF posts = <<>> THEN <<>>
    ELSE InsertSorted(SortPosts(SubSeq(posts, 1, Len(posts) - 1)), posts[Len(posts)])

\* the card of one post
BlogCard(post) ==
    [slug |-> JsString(Get(post, K_slug)),
     title |-> JsString(Get(post, K_title)),
     date |-> formatDate(Get(post, K_date)),
     readTime |-> JsString(Get(post, K_readTime)),
     description |-> JsString(Get(post, K_description)),
     tags |-> Get(post, K_tags).val]

NoPostsMsg == "No blog posts yet. Check back soon!"
ListFailedMsg == "Failed to load blog posts. Please try again later."

\* what #blog-list holds: nothing yet, the placeholder, the cards or the error
Region(kind, message, cards) == [kind |-> kind, message |-> message, cards |-> cards]

\* the response of fetch('blogs/blog-posts.json') followed by response.json()
Resp(kind, items) == [kind |-> kind, items |-> items]

\* the try block throws: the fetch or json() rejects, posts is null (posts.length),
\* posts is no array (posts.sort), or a post has no tags array (post.tags.map)
ListThrows(resp) ==
    \/ resp.kind \in {"reject", "badjson", "null", "object"}
    \/ /\ resp.kind = "array"
       /\ \E i \in 1..Len(resp.items) : Get(resp.items[i], K_tags).type # "array"

\* a faulty variant: only the fetch is inside the try block
loadBlogListNarrowTry(resp) ==
    IF resp.kind \in {"reject", "badjson"}
    THEN [blogList |-> Region("error", ListFailedMsg, <<>>), escaped |-> FALSE]
    ELSE IF ListThrows(resp)
    THEN [blogList |-> Region("blank", "", <<>>), escaped |-> TRUE]
    ELSE IF Len(resp.items) = 0
    THEN [blogList |-> Region("placeholder", NoPostsMsg, <<>>), escaped |-> FALSE]
    ELSE LET sorted == SortPosts(resp.items)
         IN  [blogList |-> Region("cards", "", [i \in 1..Len(sorted) |-> BlogCard(sorted[i])]),
              escaped |-> FALSE]

\* loadBlogList from the resolution of the fetch on: what #blog-list ends up
\* holding and whether an exception leaves the function (the fade-in timers of
\* lines 52-58 only add a CSS class to the cards and are left out)
loadBlogList(resp) ==
    IF ListThrows(resp)
    THEN [blogList |-> Region("error", ListFailedMsg, <<>>), escaped |-> FALSE]
    ELSE IF Len(resp.items) = 0
    THEN [blogList |-> Region("placeholder", NoPostsMsg, <<>>), escaped |-> FALSE]
    ELSE LET sorted == SortPosts(resp.items)
         IN  [blogList |-> Region("cards", "", [i \in 1..Len(sorted) |-> BlogCard(sorted[i])]),
              escaped |-> FALSE]

\* ------------------------------------------------- catalogs for the list view
Date1 == <<"2", "0", "2", "5", "-", "0", "5", "-", "0", "5">>
Date2 == <<"2", "0", "2", "6", "-", "0", "1", "-", "0", "1">>
Date3 == <<"2", "0", "2", "6", "-", "0", "1", "-", "1", "7">>
DateSet == {Date1, Date2, Date3}

SlugOf(i) == <<"p", DigitChar(i)>>

Entry(i, date, tags) ==
    (K_slug :> Str(SlugOf(i))) @@ (K_title :> Str(<<"T", DigitChar(i)>>))
    @@ (K_description :> Str(<<"D", DigitChar(i)>>)) @@ (K_date :> Str(date))
    @@ (K_readTime :> Str(<<DigitChar(i), "m">>)) @@ (K_tags :> tags)

\* an entry without tags is one the card template fails on
EntryNoTags(i, date) ==
    (K_slug :> Str(SlugOf(i))) @@ (K_title :> Str(<<"T", DigitChar(i)>>))
    @@ (K_date :> Str(date))

ListEntries ==
    {Entry(i, d, Arr(<<<<"x">>>>)) : i \in 1..MaxPosts, d \in DateSet}
    \cup {EntryNoTags(1, Date1)}

\* catalogs of at most MaxPosts entries with pairwise different slugs
ListCatalogs ==
    {c \in SeqsUpTo(ListEntries, MaxPosts) :
        \A i, j \in 1..Len(c) : i # j => Get(c[i], K_slug) # Get(c[j], K_slug)}

ListResponses ==
    {Resp(k, <<>>) : k \in {"reject", "badjson", "null", "object"}}
    \cup {Resp("array", c) : c \in ListCatalogs}

\* the awaited fetch and json() settle and loadBlogList runs to its end
ListFetchSettled ==
    /\ listPc = "fetching"
    /\ \E resp \in ListResponses :
        LET out == loadBlogList(resp)
        IN  /\ listResp' = resp
            /\ blogList' = out.blogList
            /\ escaped' = out.escaped
    /\ listPc' = "done"


\* ------------------------------------------------------- the post page
NotFoundMsg == "Blog post not found"
LoadFailedMsg == "Failed to load blog post. Please try again later."

TitleSuffix ==
    <<" ", "-", " ", "A", "f", "t", "a", "b", " ",
      "M", "u", "d", "d", "a", "s", "s", "i", "r">>

Content(kind, message, body, code) ==
    [kind |-> kind, message |-> message, backLink |-> (kind = "error"),
     body |-> body, code |-> code]

\* a faulty variant: the error view also retitles the page
showErrorRetitled(d, message) ==
    [d EXCEPT !.postContent = Content("error", message, <<>>, <<>>),
              !.pageTitle = <<"E", "r", "r", "o", "r">>]

\* showError: #post-content gets the message and the link back to the listing
showError(d, message) ==
    [d EXCEPT !.postContent = Content("error", message, <<>>, <<>>)]

updatePageMetadata(d, meta) ==
    [d EXCEPT !.pageTitle = JsString(Get(meta, K_title)) \o TitleSuffix,
              !.metaDescription = JsString(Get(meta, K_description))]

\* addCanonicalTag: an existing link[rel=canonical] is removed, a new one appended
addCanonicalTag(d, canonicalUrl) == [d EXCEPT !.canonicalLink = Str(canonicalUrl)]

\* first 0-based index at which the characters of w occur in s, -1 when absent
IndexOfSeq(s, w) ==
    LET hits == {i \in 1..(Len(s) - Len(w) + 1) : SubSeq(s, i, i + Len(w) - 1) = w}
    IN  IF hits = {} THEN -1 ELSE Min(hits) - 1

\* getDomainName: the host of scheme://host/..., without its first "www.";
\* the text itself when it is no such URL
getDomainName(url) ==
    LET sep == IndexOfSeq(url, <<":", "/", "/">>)
    IN  IF sep <= 0 THEN url
        ELSE LET rest == Sub(url, sep + 3, Len(url))
                 slash == IndexOf(rest, "/")
                 host == IF slash < 0 THEN rest ELSE Sub(rest, 0, slash)
                 w == IndexOfSeq(host, <<"w", "w", "w", ".">>)
             IN  IF host = <<>> THEN url
                 ELSE IF w < 0 THEN host
                 ELSE Sub(host, 0, w) \o Sub(host, w + 4, Len(host))

\* showCanonicalNotice (#canonical-notice and #canonical-link are on the page)
showCanonicalNotice(d, canonicalUrl) ==
    [d EXCEPT !.noticeHref = canonicalUrl,
              !.noticeText = getDomainName(canonicalUrl),
              !.noticeDisplay = "block"]

\* renderPostHeader: title, date and read time are written first; a tags value
\* that is a non-empty string has a length but no map, and the call throws
renderPostHeader(d, meta) ==
    LET tags == Get(meta, K_tags)
        d1 == [d EXCEPT !.postTitle = JsString(Get(meta, K_title)),
                        !.postDate = formatDate(Get(meta, K_date)),
                        !.postReadTime = JsString(Get(meta, K_readTime))]
    IN  IF tags.type = "string" /\ tags.val # <<>>
        THEN [dom |-> d1, threw |-> TRUE]
        ELSE IF tags.type = "array" /\ Len(tags.val) > 0
        THEN [dom |-> [d1 EXCEPT !.postTags = tags.val], threw |-> FALSE]
        ELSE [dom |-> d1, threw |-> FALSE]

\* ------------------------------------------------- renderMarkdownContent
\* the languages registered with hljs
Java == <<"j", "a", "v", "a">>
Registered == {Java}
getLanguage(lang) == lang.type = "string" /\ lang.val \in Registered

Highlighted(by, language) == [by |-> by, language |-> language]

\* a faulty variant: no try/catch around hljs.highlight
highlightUnguarded(block) ==
    IF block.lang.type = "string" /\ block.lang.val # <<>> /\ getLanguage(block.lang)
    THEN IF block.highlightThrows
         THEN [threw |-> TRUE, value |-> Highlighted("none", <<>>)]
         ELSE [threw |-> FALSE, value |-> Highlighted("language", block.lang.val)]
    ELSE [threw |-> FALSE, value |-> Highlighted("auto", <<>>)]

\* the highlight callback given to marked: hljs.highlight for a registered
\* language hint, hljs.highlightAuto otherwise and when hljs.highlight throws
highlight(block) ==
    IF /\ block.lang.type = "string" /\ block.lang.val # <<>> /\ getLanguage(block.lang)
       /\ ~block.highlightThrows
    THEN [threw |-> FALSE, value |-> Highlighted("language", block.lang.val)]
    ELSE [threw |-> FALSE, value |-> Highlighted("auto", <<>>)]

\* renderMarkdownContent: marked.parse calls the callback once per fenced code
\* block; an exception of the callback leaves marked.parse before the page is written
renderMarkdownContent(d, body, blks) ==
    LET outs == [i \in 1..Len(blks) |-> highlight(blks[i])]
    IN  IF \E i \in 1..Len(blks) : outs[i].threw
        THEN [dom |-> d, threw |-> TRUE]
        ELSE [dom |-> [d EXCEPT !.postContent =
                          Content("html", "", body, [i \in 1..Len(blks) |-> outs[i].value])],
              threw |-> FALSE]

\* ---------------------------------------------------------- loadBlogPost
\* { ...postMeta, ...frontmatter }
Merge(base, frontmatter) == frontmatter @@ base

\* finalMeta.canonical && finalMeta.canonical.trim() !== '' for a string or undefined
HasCanonical(canonical) ==
    canonical.type = "string" /\ canonical.val # <<>> /\ Trim(canonical.val) # <<>>

StepsToMetadata == <<"parseFrontmatter", "merge", "updatePageMetadata">>
StepsOfCanonical == <<"addCanonicalTag", "showCanonicalNotice">>

\* line 117, r being what renderMarkdownContent did
RenderedBody(r, steps) ==
    [dom |-> r.dom, trace |-> Append(steps, "renderMarkdownContent"), threw |-> r.threw]

\* lines 114-117, h being what renderPostHeader did
RenderAfterHeader(h, steps, body, blks) ==
    IF h.threw THEN [dom |-> h.dom, trace |-> steps, threw |-> TRUE]
    ELSE RenderedBody(renderMarkdownContent(h.dom, body, blks), steps)

\* lines 108-117: an array is truthy and has no trim, so the condition throws on it
RenderAfterMetadata(d, finalMeta, canonical, body, blks) ==
    IF canonical.type = "array"
    THEN [dom |-> d, trace |-> StepsToMetadata, threw |-> TRUE]
    ELSE IF HasCanonical(canonical)
    THEN RenderAfterHeader(
             renderPostHeader(
                 showCanonicalNotice(addCanonicalTag(d, canonical.val), canonical.val),
                 finalMeta),
             StepsToMetadata \o StepsOfCanonical \o <<"renderPostHeader">>, body, blks)
    ELSE RenderAfterHeader(renderPostHeader(d, finalMeta),
                           Append(StepsToMetadata, "renderPostHeader"), body, blks)

\* lines 105-117
RenderMerged(d, finalMeta, body, blks) ==
    RenderAfterMetadata(updatePageMetadata(d, finalMeta), finalMeta,
                        Get(finalMeta, K_canonical), body, blks)

\* lines 102-117, pf being what parseFrontmatter returned
RenderParsed(d, entry, pf, blks) ==
    RenderMerged(d, Merge(entry, pf.frontmatter), pf.content, blks)

\* lines 98-117: from the document text to the rendered page; threw tells
\* whether the catch block is entered
RenderPost(d, entry, text, blks) == RenderParsed(d, entry, parseFrontmatter(text), blks)

\* !slug
SlugMissing(s) == s.type # "string" \/ s.val = <<>>

NoEntry == EmptyObj

\* posts.find(p => p.slug === slug)
RECURSIVE Find(_, _)
Find(posts, s) ==
    IF posts = <<>> THEN NoEntry
    ELSE IF Get(Head(posts), K_slug) = s THEN Head(posts)
    ELSE Find(Tail(posts), s)

\* a faulty variant: a catalog that cannot be loaded counts as an empty one
CatalogThrowsLenient(c) == c.kind = "object"

\* lines 82-84 throw: the fetch or json() rejects, or posts has no find
CatalogThrows(c) == c.kind \in {"reject", "badjson", "object"}

\* a faulty variant: the entry is never checked
EntryMissingUnchecked(entry) == FALSE

\* !postMeta
EntryMissing(entry) == entry = NoEntry

\* a faulty variant: response.ok is not looked at
DocumentThrowsNoOkCheck(d) == d.kind \in {"reject", "textreject"}

\* lines 92-96 throw: the fetch rejects, the response is not ok, or text() rejects
DocumentThrows(d) == d.kind \in {"reject", "notok", "textreject"}


\* --------------------------------------------- inputs of the post view
Url == <<"h", "t", "t", "p", "s", ":", "/", "/", "w", "w", "w", ".", "a", ".", "b", "/", "c">>
OldUrl == <<"h", "t", "t", "p", ":", "/", "/", "o", ".", "l", "d">>

Entry1 == Entry(1, Date1, Arr(<<<<"x">>>>))
Entry2 == (K_canonical :> Str(Url)) @@ Entry(2, Date2, Arr(<<<<"x">>, <<"y">>>>))

PostCatalogs ==
    {Resp(k, <<>>) : k \in {"reject", "badjson", "object"}}
    \cup {Resp("array", c) : c \in {<<>>, <<Entry1>>, <<Entry1, Entry2>>}}

\* null (no slug parameter), "", two slugs of the catalog and one that is in none
Slugs == {Undefined, Str(<<>>), Str(SlugOf(1)), Str(SlugOf(2)), Str(SlugOf(9))}

LTitle == <<"t", "i", "t", "l", "e", ":", " ", "N", ":", " ", "M">>
LTagsList == <<"t", "a", "g", "s", ":", " ", "[", "\"", "J", "\"", ",", " ", "\"", "T", " ", "S", "\"", "]">>
LTagsScalar == <<"t", "a", "g", "s", ":", " ", "J">>
LTagsNone == <<"t", "a", "g", "s", ":">>
LCanonNone == <<"c", "a", "n", "o", "n", "i", "c", "a", "l", ":">>
LCanonUrl == <<"c", "a", "n", "o", "n", "i", "c", "a", "l", ":", " ">> \o Url
LCanonList == <<"c", "a", "n", "o", "n", "i", "c", "a", "l", ":", " ", "[", "u", "]">>
LBody == <<"#", " ", "B">>

DocPlain == Join(<<LBody, LBlank, LPlain>>, NL)
\* the shape of the sample post: title, empty canonical, a tag list, a blank line
DocSample == Join(<<LDelim, LTitle, LCanonNone, LTagsList, LDelim, LBlank, LBody>>, NL)
DocCanon == Join(<<LDelim, LCanonUrl, LDelim, LBody>>, NL)
DocTagsNone == Join(<<LDelim, LTagsNone, LDelim, LBody>>, NL)
DocTagsScalar == Join(<<LDelim, LTagsScalar, LDelim, LBody>>, NL)
DocCanonList == Join(<<LDelim, LCanonList, LDelim, LBody>>, NL)
DocEmptyBlock == Join(<<LDelim, LDelim, LBody>>, NL)

Docs == {DocPlain, DocSample, DocCanon, DocTagsNone, DocTagsScalar, DocCanonList,
         DocEmptyBlock}

Fetched(kind, text) == [kind |-> kind, text |-> text]

\* the document fetch rejects, answers 404 with some page, fails while the text
\* is read, or answers with a document
DocOutcomes ==
    {Fetched("reject", <<>>), Fetched("notok", DocPlain), Fetched("textreject", <<>>)}
    \cup {Fetched("ok", t) : t \in Docs}

\* a fenced code block: its language hint and whether hljs.highlight throws on it
Block(lang, throws) == [lang |-> lang, highlightThrows |-> throws]
BlockSet ==
    {Block(l, t) : l \in {Undefined, Str(Java), Str(<<"z", "z">>)}, t \in BOOLEAN}
BlockSeqs == SeqsUpTo(BlockSet, MaxBlocks)

EmptyContent == Content("empty", "", <<>>, <<>>)

Page(canonicalLink) ==
    [pageTitle |-> <<"B", "l", "o", "g">>,
     metaDescription |-> <<>>,
     canonicalLink |-> canonicalLink,
     noticeDisplay |-> "none",
     noticeHref |-> <<>>,
     noticeText |-> <<>>,
     postTitle |-> <<>>,
     postDate |-> <<>>,
     postReadTime |-> <<>>,
     postTags |-> <<>>,
     postContent |-> EmptyContent]

\* lines 71-82: up to the first await
ReadSlug ==
    /\ pc = "reading-slug"
    /\ IF SlugMissing(slug)
       THEN /\ dom' = showError(dom, NotFoundMsg)
            /\ trace' = Append(trace, "showError")
            /\ pc' = "error"
       ELSE /\ trace' = Append(trace, "fetch:catalog")
            /\ pc' = "loading-catalog"
            /\ UNCHANGED dom
    /\ UNCHANGED <<slug, catalog, doc, blocks, postMeta, dom0>>

\* lines 82-92: the catalog fetch and json() settle
CatalogSettled ==
    /\ pc = "loading-catalog"
    /\ \E c \in PostCatalogs :
        /\ catalog' = c
        /\ IF CatalogThrows(c)
           THEN /\ dom' = showError(dom, LoadFailedMsg)
                /\ trace' = trace \o <<"catalog:failed", "showError">>
                /\ pc' = "error"
                /\ UNCHANGED postMeta
           ELSE LET found == Find(c.items, slug)
                IN  /\ postMeta' = found
                    /\ IF EntryMissing(found)
                       THEN /\ dom' = showError(dom, NotFoundMsg)
                            /\ trace' = trace \o <<"catalog:resolved", "showError">>
                            /\ pc' = "error"
                       ELSE /\ trace' = trace \o <<"catalog:resolved", "fetch:document">>
                            /\ pc' = "loading-document"
                            /\ UNCHANGED dom
    /\ UNCHANGED <<slug, doc, blocks, dom0>>

\* lines 98-122 once the rendering r is known: the page it leaves, or the catch block
PostRendered(r, blks) ==
    /\ blocks' = IF r.trace[Len(r.trace)] = "renderMarkdownContent" THEN blks ELSE <<>>
    /\ IF r.threw
       THEN /\ dom' = showError(r.dom, LoadFailedMsg)
            /\ trace' = Append(trace, "document:resolved") \o r.trace \o <<"showError">>
            /\ pc' = "error"
       ELSE /\ dom' = r.dom
            /\ trace' = Append(trace, "document:resolved") \o r.trace
            /\ pc' = "done"

\* lines 92-122: the document fetch and text() settle and the post is rendered
DocumentSettled ==
    /\ pc = "loading-document"
    /\ \E d \in DocOutcomes, blks \in BlockSeqs :
        /\ doc' = d
        /\ IF DocumentThrows(d)
           THEN /\ dom' = showError(dom, LoadFailedMsg)
                /\ trace' = trace \o <<"document:failed", "showError">>
                /\ pc' = "error"
                /\ blocks' = <<>>
           ELSE PostRendered(RenderPost(dom, postMeta, d.text, blks), blks)
    /\ UNCHANGED <<slug, catalog, postMeta, dom0>>

\* ------------------------------------------------------ specifications
\* the post view (the other two parts idle)
Init ==
    /\ pc = "reading-slug"
    /\ slug \in Slugs
    /\ catalog = Resp("pending", <<>>)
    /\ doc = Fetched("pending", <<>>)
    /\ blocks = <<>>
    /\ postMeta = NoEntry
    /\ trace = <<>>
    /\ dom \in {Page(Undefined), Page(Str(OldUrl))}
    /\ dom0 = dom
    /\ parsePc = "idle" /\ markdown = <<>> /\ result = NoResult
    /\ listPc = "idle" /\ listResp = Resp("none", <<>>)
    /\ blogList = Region("blank", "", <<>>) /\ escaped = FALSE

Next ==
    \/ ReadSlug /\ UNCHANGED <<parseVars, listVars>>
    \/ CatalogSettled /\ UNCHANGED <<parseVars, listVars>>
    \/ DocumentSettled /\ UNCHANGED <<parseVars, listVars>>

Spec == Init /\ [][Next]_vars

\* the list view
InitList ==
    /\ listPc = "fetching"
    /\ listResp = Resp("pending", <<>>)
    /\ blogList = Region("blank", "", <<>>)
    /\ escaped = FALSE
    /\ parsePc = "idle" /\ markdown = <<>> /\ result = NoResult
    /\ pc = "idle" /\ slug = Undefined /\ catalog = Resp("none", <<>>)
    /\ doc = Fetched("none", <<>>) /\ blocks = <<>> /\ postMeta = NoEntry
    /\ trace = <<>> /\ dom = Page(Undefined) /\ dom0 = Page(Undefined)

NextList == ListFetchSettled /\ UNCHANGED <<parseVars, postVars>>

SpecList == InitList /\ [][NextList]_vars

\* parseFrontmatter on every text of Texts
InitParse ==
    /\ parsePc = "start"
    /\ markdown \in Texts
    /\ result = NoResult
    /\ listPc = "idle" /\ listResp = Resp("none", <<>>)
    /\ blogList = Region("blank", "", <<>>) /\ escaped = FALSE
    /\ pc = "idle" /\ slug = Undefined /\ catalog = Resp("none", <<>>)
    /\ doc = Fetched("none", <<>>) /\ blocks = <<>> /\ postMeta = NoEntry
    /\ trace = <<>> /\ dom = Page(Undefined) /\ dom0 = Page(Undefined)

NextParse == RunParseFrontmatter /\ UNCHANGED <<listVars, postVars>>

SpecParse == InitParse /\ [][NextParse]_vars

\* ================================================================ claims
\* ---- the post view (Spec)
DocFetchIssued == \E i \in 1..Len(trace) : trace[i] = "fetch:document"

ErrorShown(message) ==
    pc = "error" /\ dom.postContent = Content("error", message, <<>>, <<>>)

SlugInCatalog ==
    \E i \in 1..Len(catalog.items) : Get(catalog.items[i], K_slug) = slug

RenderSteps ==
    {"parseFrontmatter", "merge", "updatePageMetadata", "addCanonicalTag",
     "showCanonicalNotice", "renderPostHeader", "renderMarkdownContent"}

\* C1: a run without a slug (null or ""), and a run whose slug is in no entry of
\* the fetched catalog, ends in the error state with the "not found" message and
\* never issues the document fetch; the document fetch is issued only after the
\* catalog fetch resolved and an entry with the slug was found.
C1_DocFetchGated ==
    /\ (pc # "reading-slug" /\ (slug.type # "string" \/ slug.val = <<>>))
          => (ErrorShown(NotFoundMsg) /\ ~DocFetchIssued)
    /\ (catalog.kind = "array" /\ ~SlugInCatalog)
          => (ErrorShown(NotFoundMsg) /\ ~DocFetchIssued)
    /\ DocFetchIssued
          => /\ catalog.kind = "array" /\ SlugInCatalog
             /\ \E i, j \in 1..Len(trace) :
                    i < j /\ trace[i] = "catalog:resolved" /\ trace[j] = "fetch:document"

C1_Witness ==
    /\ pc = "error" /\ catalog.kind = "array" /\ Len(catalog.items) > 0
    /\ ~SlugInCatalog /\ slug = Str(SlugOf(9))

\* C2 as claimed: a failed catalog fetch (the fetch rejects or the response is
\* no JSON) ends in the error state with the "not found" message.
C2_FailedCatalogNotFound ==
    catalog.kind \in {"reject", "badjson"} => ErrorShown(NotFoundMsg)

\* C2 as amended: a failed catalog fetch ends in the error state with the
\* "Failed to load blog post" message of the catch block, and no document
\* fetch is issued.
C2_FailedCatalogLoadFailed ==
    catalog.kind \in {"reject", "badjson"}
        => (ErrorShown(LoadFailedMsg) /\ ~DocFetchIssued)

C2_Witness == catalog.kind = "badjson" /\ pc = "error"

\* C3: once the slug was found, a document fetch that rejects or answers with
\* ok = false ends in the error state with the "load failed" message, and
\* neither the frontmatter parser nor a renderer runs.
C3_FailedDocument ==
    doc.kind \in {"reject", "notok"}
        => /\ ErrorShown(LoadFailedMsg)
           /\ \A i \in 1..Len(trace) : trace[i] \notin RenderSteps

C3_Witness == doc.kind = "notok" /\ pc = "error" /\ SlugInCatalog

\* C4: a run that ends in the error state because the slug is missing, the
\* catalog is unavailable or has no entry, or the document is unavailable,
\* leaves title, meta description, canonical link, canonical notice and the
\* header fields as they were; only the content region changed, and it holds
\* the error message with the link back to the listing.
C4_NoPartialRendering ==
    (pc = "error" /\ doc.kind # "ok")
        => /\ dom = [dom0 EXCEPT !.postContent = dom.postContent]
           /\ dom.postContent.kind = "error"
           /\ dom.postContent.message \in {NotFoundMsg, LoadFailedMsg}
           /\ dom.postContent.backLink

C4_Witness ==
    pc = "error" /\ doc.kind = "reject" /\ dom0.canonicalLink = Str(OldUrl)

StepsAfterDocument ==
    LET at == CHOOSE i \in 1..Len(trace) : trace[i] = "document:resolved"
    IN  SubSeq(trace, at + 1, Len(trace))

\* C10 as claimed: with a slug, a catalog entry for it and a document that was
\* fetched, the run goes through parsing, merging, metadata update, canonical
\* registration (only for a non-empty canonical), header and body rendering in
\* that order and ends in done, whatever the frontmatter holds.
C10_AlwaysDone ==
    doc.kind = "ok"
        => /\ pc = "done"
           /\ StepsAfterDocument \in
                {StepsToMetadata \o <<"renderPostHeader", "renderMarkdownContent">>,
                 StepsToMetadata \o StepsOfCanonical
                     \o <<"renderPostHeader", "renderMarkdownContent">>}

\* ---- parseFrontmatter (SpecParse)
TextLines == Split(markdown, NL)

IsKeyValueLine(l) == IndexOf(l, ":") > 0

\* a delimiter line: "---", possibly followed by white space
IsDelimiterLine(l) ==
    Len(l) >= 3 /\ SubSeq(l, 1, 3) = LDelim /\ \A i \in 4..Len(l) : IsWS(l[i])

\* the closing delimiter line of a text that opens with one: the first later
\* delimiter line that is ended by a line break
ClosingLines ==
    {j \in 2..(Len(TextLines) - 1) : IsDelimiterLine(TextLines[j])}

WellFormed ==
    /\ IsDelimiterLine(TextLines[1])
    /\ ClosingLines # {}
    /\ \A i \in 2..(Min(ClosingLines) - 1) : IsKeyValueLine(TextLines[i])

\* C5 as claimed: a text that opens with a "---" line, goes on with zero or
\* more "key: value" lines and a closing "---" line yields the mapping of those
\* lines and, as body, the text after the closing line; every other text yields
\* the empty mapping and itself as body.
C5_Contract ==
    parsePc = "done" =>
        IF WellFormed
        THEN LET j == Min(ClosingLines)
             IN  /\ result.content = Join(SubSeq(TextLines, j + 1, Len(TextLines)), NL)
                 /\ result.frontmatter = ParseLines(SubSeq(TextLines, 2, j - 1), EmptyObj)
        ELSE result.frontmatter = EmptyObj /\ result.content = markdown

OpensWithDelimiter == IsDelimiterLine(TextLines[1])

IsSuffix(b, s) ==
    Len(b) <= Len(s) /\ SubSeq(s, Len(s) - Len(b) + 1, Len(s)) = b

\* C6: a text whose first line is no "---" delimiter line yields the empty
\* mapping and the text itself as body; and the body returned for any text is a
\* suffix of the text, character for character.
C6_BodyVerbatim ==
    parsePc = "done" =>
        /\ ~OpensWithDelimiter
              => (result.frontmatter = EmptyObj /\ result.content = markdown)
        /\ IsSuffix(result.content, markdown)

C6_Witness ==
    /\ parsePc = "done" /\ ~OpensWithDelimiter
    /\ Len(TextLines) = 4 /\ TextLines[2] = LDelim /\ TextLines[3] = LKeyVal
    /\ TextLines[4] = LDelim

\* ---- the list view (SpecList)
Items == listResp.items

AllHaveTags == \A i \in 1..Len(Items) : Get(Items[i], K_tags).type = "array"

\* the place in the catalog of the entry a card was made from
PlaceOf(card) ==
    CHOOSE k \in 1..Len(Items) : JsString(Get(Items[k], K_slug)) = card.slug

DaysOf(k) == NewDate(Get(Items[k], K_date)).days

\* C7: for a non-empty catalog the list holds exactly one card per entry, newest
\* date first, entries of the same date in their catalog order.
C7_SortedCards ==
    (listPc = "done" /\ listResp.kind = "array" /\ Len(Items) > 0 /\ AllHaveTags)
        => /\ blogList.kind = "cards"
           /\ Len(blogList.cards) = Len(Items)
           /\ \A k \in 1..Len(Items) :
                Cardinality({i \in 1..Len(blogList.cards) :
                    blogList.cards[i].slug = JsString(Get(Items[k], K_slug))}) = 1
           /\ \A i, j \in 1..Len(blogList.cards) :
                i < j =>
                    LET a == PlaceOf(blogList.cards[i])
                        b == PlaceOf(blogList.cards[j])
                    IN  \/ DaysOf(a) > DaysOf(b)
                        \/ DaysOf(a) = DaysOf(b) /\ a < b

C7_Witness ==
    /\ listPc = "done" /\ blogList.kind = "cards" /\ Len(Items) = 3
    /\ Get(Items[1], K_date) = Str(Date1)
    /\ Get(Items[2], K_date) = Str(Date3)
    /\ Get(Items[3], K_date) = Str(Date3)

\* the fetch or json() rejects, or a later step of the try block throws
ListRunFails ==
    \/ listResp.kind \in {"reject", "badjson", "null", "object"}
    \/ listResp.kind = "array" /\ ~AllHaveTags

\* C8: a run of loadBlogList in which the fetch rejects, the response cannot be
\* parsed or a later step throws ends with the "Failed to load blog posts"
\* message in the list region; the region is never left blank and no exception
\* leaves loadBlogList.
C8_ListErrorShown ==
    listPc = "done" =>
        /\ ~escaped
        /\ blogList.kind # "blank"
        /\ ListRunFails => blogList = Region("error", ListFailedMsg, <<>>)

C8_Witness ==
    /\ listPc = "done" /\ listResp.kind = "array" /\ ~AllHaveTags
    /\ blogList.kind = "error"

====
